---- MODULE Spec2Model ----
(***************************************************************************)
(* Workspace layout persistence and reconstruction                         *)
(* (crates/workspace/src/persistence/model.rs).                            *)
(*                                                                         *)
(* SerializedPaneGroup::deserialize is a recursive async function.  It is  *)
(* modelled as a machine with an explicit stack of Group frames; the       *)
(* suspension point of SerializedPane::deserialize_to (join_all over the   *)
(* item tasks) is the place where item tasks complete in any order.        *)
(***************************************************************************)
EXTENDS Integers, Sequences, FiniteSets, TLC

\* ---------------------------------------------------------------------
\* Bounds of the model
\* ---------------------------------------------------------------------
\* Largest number of items of a persisted pane that is the whole tree.
MaxItems == 3
\* Largest number of nodes (groups and panes) of a persisted tree.
MaxNodes == 5

\* ---------------------------------------------------------------------
\* Option<T> and Result<T>: None / Err is <<>>, Some(x) / Ok(x) is <<x>>
\* ---------------------------------------------------------------------
None == <<>>
Some(x) == <<x>>
IsSome(o) == o # <<>>
Unwrap(o) == o[1]
\* Option::or
OptionOr(a, b) == IF IsSome(a) THEN a ELSE b
\* ResultExt::log_err: Ok(x) -> Some(x), Err -> None
LogErr(r) == r

\* ---------------------------------------------------------------------
\* The item kind registry (cx.global::<ItemDeserializers>())
\* ---------------------------------------------------------------------
\* Kinds with a registered deserializer, and whether that deserializer's
\* task resolves to Ok.  "Unknown" has no deserializer.
ItemDeserializers == ("Editor" :> TRUE) @@ ("Broken" :> FALSE)
Kinds == {"Editor", "Broken", "Unknown"}

\* The outcome of rehydrating one SerializedItem: Ok(handle) or Err.  The
\* live handle is identified by the item id it was rehydrated from.
Rehydrated(item) ==
    IF item.kind \in DOMAIN ItemDeserializers /\ ItemDeserializers[item.kind]
    THEN Some(item.item_id)
    ELSE None

\* ---------------------------------------------------------------------
\* Persisted data: SerializedItem, SerializedPane, SerializedPaneGroup
\* ---------------------------------------------------------------------
SerializedItem(kind, item_id, active, preview) ==
    [kind |-> kind, item_id |-> item_id, active |-> active, preview |-> preview]

SerializedPane(children, active) ==
    [type |-> "Pane", active |-> active, children |-> children]

SerializedGroup(axis, flexes, children) ==
    [type |-> "Group", axis |-> axis, flexes |-> flexes, children |-> children]

\* Item lists of length n: every assignment of kinds, at most one item
\* marked active and at most one marked preview (0 marks none).
ItemLists(n) ==
    { [i \in 1..n |-> SerializedItem(k[i], i, i = a, i = p)] :
        k \in [1..n -> Kinds], a \in 0..n, p \in 0..n }

\* Trees that are a single pane of up to MaxItems items.
SinglePaneTrees ==
    { SerializedPane(c, act) :
        c \in UNION { ItemLists(n) : n \in 0..MaxItems }, act \in BOOLEAN }

\* Leaves of the trees that have groups: a pane whose only item fails, or
\* a pane of two items that both rehydrate; the pane is active or not.
LeafItemLists ==
    { <<SerializedItem("Broken", 1, FALSE, FALSE)>>,
      <<SerializedItem("Editor", 1, FALSE, FALSE),
        SerializedItem("Editor", 2, FALSE, FALSE)>> }

LeafPanes == { SerializedPane(c, act) : c \in LeafItemLists, act \in BOOLEAN }

\* A group without flexes is horizontal, one with flexes is vertical.
AxisOf(flexes) == IF IsSome(flexes) THEN "Vertical" ELSE "Horizontal"

RECURSIVE TreesOfSize(_), ForestsOfSize(_)
\* Trees with exactly n nodes.
TreesOfSize(n) ==
    IF n = 1 THEN LeafPanes
    ELSE { SerializedGroup(AxisOf(f), f, c) :
             c \in ForestsOfSize(n - 1), f \in {None, Some(<<1>>)} }
\* Non-empty sequences of trees with n nodes in total.
ForestsOfSize(n) ==
    UNION { { <<t>> \o rest :
                t \in TreesOfSize(k),
                rest \in IF k = n THEN {<<>>} ELSE ForestsOfSize(n - k) } :
            k \in 1..n }

RECURSIVE Reflex(_)
\* Gives every group that has flexes one weight per child: 1, 2, ...
Reflex(t) ==
    IF t.type = "Pane" THEN t
    ELSE SerializedGroup(
            t.axis,
            IF IsSome(t.flexes)
            THEN Some([i \in 1..Len(t.children) |-> i]) ELSE None,
            [i \in 1..Len(t.children) |-> Reflex(t.children[i])])

GroupTrees == { Reflex(t) : t \in UNION { TreesOfSize(n) : n \in 2..MaxNodes } }

PersistedTrees == SinglePaneTrees \cup GroupTrees

\* ---------------------------------------------------------------------
\* Live objects: Pane, Member, PaneAxis
\* ---------------------------------------------------------------------
\* A pane the workspace has just added.
NewPane == [items |-> <<>>, active_item_index |-> None, preview_item_id |-> None]

\* Pane::add_item(item, true, true, None, cx)
AddItem(p, item_handle) == [p EXCEPT !.items = Append(@, item_handle)]

\* Pane::activate_item(index, false, false, cx); index counts from 0
ActivateItem(p, index) ==
    IF index < Len(p.items) THEN [p EXCEPT !.active_item_index = Some(index)] ELSE p

\* Pane::item_for_index(ix); ix counts from 0
ItemForIndex(p, ix) == IF ix < Len(p.items) THEN Some(p.items[ix + 1]) ELSE None

\* Pane::set_preview_item_id(id, cx)
SetPreviewItemId(p, id) == [p EXCEPT !.preview_item_id = id]

\* Pane::items_len()
ItemsLen(p) == Len(p.items)

MemberPane(pane_id) == [type |-> "Pane", pane |-> pane_id]

\* Member::Axis(PaneAxis::load(axis, members, flexes))
PaneAxisLoad(axis, members, flexes) ==
    [type |-> "Axis", axis |-> axis, members |-> members, flexes |-> flexes]

\* ---------------------------------------------------------------------
\* State
\* ---------------------------------------------------------------------
VARIABLES
    tree,        \* the persisted center group handed to deserialize
    pc,          \* position of the running deserialize call
    node,        \* self of the innermost running deserialize call
    stack,       \* frames of the enclosing Group calls, outermost first
    result,      \* value returned by the call that finished last
    pane,        \* deserialize: the pane of the Pane arm (0: none)
    item_tasks,  \* deserialize_to: the dispatched tasks, in persisted order
    finished,    \* indices of item_tasks in the order the tasks completed
    new_items,   \* deserialize: what deserialize_to returned
    panes,       \* the workspace's panes: pane id -> Pane
    pane_count,  \* number of panes the workspace has added so far
    col_pc,      \* column protocol: "off", "start", "bound" or "read"
    col_value,   \* the value that is bound: [type, value]
    col_start,   \* the start index given to bind and to column
    statement,   \* the columns of the statement: index -> SQL value
    bind_next,   \* the index bind returned
    col_result,  \* what column returned: [value, next]
    workspace_alive, \* the workspace (and its window) has not been released
    call_pc,     \* a call of a plain function: "off", "start", "loop", "done"
    call_args,   \* the arguments of that call
    call_local,  \* the locals of that call
    call_result  \* what that call returned

treeVars == <<tree, pc, node, stack, result, pane, item_tasks, finished,
              new_items, panes, pane_count, workspace_alive>>

callVars == <<call_pc, call_args, call_local, call_result>>

colVars == <<col_pc, col_value, col_start, statement, bind_next, col_result>>

vars == <<treeVars, colVars, callVars>>

\* ---------------------------------------------------------------------
\* SerializedPane::deserialize_to
\* ---------------------------------------------------------------------
\* Lines 324-333: the task for one item.  An item whose kind has no
\* deserializer gets Task::ready(Err(..)), which is complete at once.
ItemTask(item) ==
    IF item.kind \in DOMAIN ItemDeserializers
    THEN [done |-> FALSE, output |-> None, item |-> item]
    ELSE [done |-> TRUE, output |-> None, item |-> item]

\* Lines 319-333: item_tasks after the dispatch loop.
DispatchTasks(children) == [i \in 1..Len(children) |-> ItemTask(children[i])]

RECURSIVE LastIndexWhere(_, _, _)
\* The value a "for (index, item) in enumerate(): if flag { x = Some(index) }"
\* loop leaves in x; indices count from 0.
LastIndexWhere(children, flag, n) ==
    IF n = 0 THEN None
    ELSE IF children[n][flag] THEN Some(n - 1)
    ELSE LastIndexWhere(children, flag, n - 1)

\* Lines 320, 334-336
ActiveItemIndex(children) == LastIndexWhere(children, "active", Len(children))
\* Lines 321, 337-339
PreviewItemIndex(children) == LastIndexWhere(children, "preview", Len(children))

\* join_all replaced by a collector that yields outputs as they complete
\* (the outputs of tasks that were ready at dispatch come last).
JoinAllInCompletionOrder(tasks, order) ==
    [k \in 1..Len(tasks) |->
        IF k <= Len(order) THEN tasks[order[k]].output ELSE None]

\* Line 343: futures::future::join_all yields the outputs in the order of
\* the tasks it was given, whatever the order they completed in.
JoinAll(tasks, order) == [i \in 1..Len(tasks) |-> tasks[i].output]

\* The await returns as soon as one task is complete.
JoinAllResolvedOnFirst(tasks) ==
    tasks = <<>> \/ \E i \in 1..Len(tasks) : tasks[i].done

\* Line 343: the await of join_all returns when every task is complete.
JoinAllResolved(tasks) == \A i \in 1..Len(tasks) : tasks[i].done

RECURSIVE AddItemsUntilError(_, _)
\* The loop returns at the first task that failed ("item_handle?" in place
\* of log_err): the items after it are not added.
AddItemsUntilError(p, handles) ==
    IF handles = <<>> \/ ~IsSome(Head(handles)) THEN p
    ELSE AddItemsUntilError(AddItem(p, Unwrap(Head(handles))), Tail(handles))

RECURSIVE AddItems(_, _)
\* Lines 343-352: every Some(item_handle) is added to the pane, in order.
AddItems(p, handles) ==
    IF handles = <<>> THEN p
    ELSE AddItems(IF IsSome(LogErr(Head(handles)))
                  THEN AddItem(p, Unwrap(LogErr(Head(handles)))) ELSE p,
                  Tail(handles))

\* Lines 354-358
ActivateRestored(p, active_item_index) ==
    IF IsSome(active_item_index)
    THEN ActivateItem(p, Unwrap(active_item_index))
    ELSE p

\* Lines 360-366
PreviewRestored(p, preview_item_index) ==
    IF IsSome(preview_item_index) /\ IsSome(ItemForIndex(p, Unwrap(preview_item_index)))
    THEN SetPreviewItemId(p, Some(Unwrap(ItemForIndex(p, Unwrap(preview_item_index)))))
    ELSE p

\* Lines 342-366: the pane after the joined outputs have been processed.
RestoredPane(p, children, outputs) ==
    PreviewRestored(
        ActivateRestored(AddItems(p, outputs), ActiveItemIndex(children)),
        PreviewItemIndex(children))

\* ---------------------------------------------------------------------
\* SerializedPaneGroup::deserialize
\* ---------------------------------------------------------------------
\* Lines 247-249: the locals of the Group arm, and the children iterator.
GroupFrame(group) ==
    [axis |-> group.axis, flexes |-> group.flexes, children |-> group.children,
     current_active_pane |-> None, members |-> <<>>, items |-> <<>>]

\* The new member is put in front of the members collected so far.
PushChildInFront(frame, r) ==
    [frame EXCEPT !.members = <<r.member>> \o @,
                  !.items = @ \o r.items,
                  !.current_active_pane = OptionOr(@, r.active_pane)]

\* The latest child's active pane replaces the one found earlier.
PushChildLastActiveWins(frame, r) ==
    [frame EXCEPT !.members = Append(@, r.member),
                  !.items = @ \o r.items,
                  !.current_active_pane = OptionOr(r.active_pane, @)]

\* The items of the latest child replace the items collected so far.
PushChildItemsOfLastChild(frame, r) ==
    [frame EXCEPT !.members = Append(@, r.member),
                  !.items = r.items,
                  !.current_active_pane = OptionOr(@, r.active_pane)]

\* Lines 255-257: a child that returned Some((new_member, active_pane, new_items)).
PushChild(frame, r) ==
    [frame EXCEPT !.members = Append(@, r.member),
                  !.items = @ \o r.items,
                  !.current_active_pane = OptionOr(@, r.active_pane)]

\* The collapse test reads "members.len() >= 1": the first member is
\* returned whenever there is one.
GroupResultFirstMember(frame) ==
    IF frame.members = <<>> THEN None
    ELSE Some([member |-> frame.members[1],
               active_pane |-> frame.current_active_pane,
               items |-> frame.items])

\* The collapse of a group with one surviving child is left out.
GroupResultNoCollapse(frame) ==
    IF frame.members = <<>> THEN None
    ELSE Some([member |-> PaneAxisLoad(frame.axis, frame.members, frame.flexes),
               active_pane |-> frame.current_active_pane,
               items |-> frame.items])

\* The test for no surviving child is left out.
GroupResultEmptyAxis(frame) ==
    IF Len(frame.members) = 1
    THEN Some([member |-> frame.members[1],
               active_pane |-> frame.current_active_pane,
               items |-> frame.items])
    ELSE Some([member |-> PaneAxisLoad(frame.axis, frame.members, frame.flexes),
               active_pane |-> frame.current_active_pane,
               items |-> frame.items])

\* The flexes are cut to one weight per surviving member.
GroupResultFlexPerMember(frame) ==
    IF frame.members = <<>> THEN None
    ELSE IF Len(frame.members) = 1
    THEN Some([member |-> frame.members[1],
               active_pane |-> frame.current_active_pane,
               items |-> frame.items])
    ELSE Some([member |-> PaneAxisLoad(
                   frame.axis, frame.members,
                   IF IsSome(frame.flexes)
                   THEN Some(SubSeq(Unwrap(frame.flexes), 1, Len(frame.members)))
                   ELSE None),
               active_pane |-> frame.current_active_pane,
               items |-> frame.items])

\* Lines 261-273: what the Group arm returns once the loop is over.
GroupResult(frame) ==
    IF frame.members = <<>> THEN None
    ELSE IF Len(frame.members) = 1
    THEN Some([member |-> frame.members[1],
               active_pane |-> frame.current_active_pane,
               items |-> frame.items])
    ELSE Some([member |-> PaneAxisLoad(frame.axis, frame.members, frame.flexes),
               active_pane |-> frame.current_active_pane,
               items |-> frame.items])

\* The pane is reported as the active pane whether or not it was persisted
\* active.
PaneResultAlwaysActive(pane_id, active, items) ==
    Some([member |-> MemberPane(pane_id),
          active_pane |-> Some(pane_id),
          items |-> items])

\* Line 287: Some((Member::Pane(pane), active.then(|| pane), new_items))
PaneResult(pane_id, active, items) ==
    Some([member |-> MemberPane(pane_id),
          active_pane |-> IF active THEN Some(pane_id) ELSE None,
          items |-> items])

\* Line 250: the for loop takes the next child, or ends.
NextChild(frame) ==
    IF frame.children = <<>>
    THEN /\ pc' = "loop_end"
         /\ stack' = [stack EXCEPT ![Len(stack)] = frame]
         /\ UNCHANGED node
    ELSE /\ pc' = "call"
         /\ node' = Head(frame.children)
         /\ stack' = [stack EXCEPT ![Len(stack)] =
                          [frame EXCEPT !.children = Tail(@)]]

Init ==
    /\ tree \in PersistedTrees
    /\ pc = "call"
    /\ node = tree
    /\ stack = <<>>
    /\ result = None
    /\ pane = 0
    /\ item_tasks = <<>>
    /\ finished = <<>>
    /\ new_items = <<>>
    /\ panes = <<>>
    /\ pane_count = 0
    /\ col_pc = "off"
    /\ col_value = None
    /\ col_start = 0
    /\ statement = <<>>
    /\ bind_next = 0
    /\ col_result = None
    /\ workspace_alive = TRUE
    /\ call_pc = "off"
    /\ call_args = None
    /\ call_local = None
    /\ call_result = None

\* Lines 242-250: the Group arm is entered and the loop starts.
GroupEnter ==
    /\ pc = "call"
    /\ node.type = "Group"
    /\ LET frame == GroupFrame(node) IN
       IF frame.children = <<>>
       THEN /\ pc' = "loop_end"
            /\ stack' = Append(stack, frame)
            /\ UNCHANGED node
       ELSE /\ pc' = "call"
            /\ node' = Head(frame.children)
            /\ stack' = Append(stack, [frame EXCEPT !.children = Tail(@)])
    /\ UNCHANGED <<tree, result, pane, item_tasks, finished, new_items,
                   panes, pane_count>>
    /\ UNCHANGED <<workspace_alive, colVars, callVars>>

\* Lines 251-258: the awaited child returned Some(..).
ChildSome ==
    /\ pc = "ret"
    /\ stack # <<>>
    /\ IsSome(result)
    /\ NextChild(PushChild(stack[Len(stack)], Unwrap(result)))
    /\ UNCHANGED <<tree, result, pane, item_tasks, finished, new_items,
                   panes, pane_count>>
    /\ UNCHANGED <<workspace_alive, colVars, callVars>>

\* Lines 251-258: the awaited child returned None.
ChildNone ==
    /\ pc = "ret"
    /\ stack # <<>>
    /\ result = None
    /\ NextChild(stack[Len(stack)])
    /\ UNCHANGED <<tree, result, pane, item_tasks, finished, new_items,
                   panes, pane_count>>
    /\ UNCHANGED <<workspace_alive, colVars, callVars>>

\* Lines 261-273: the Group arm returns.
GroupReturn ==
    /\ pc = "loop_end"
    /\ result' = GroupResult(stack[Len(stack)])
    /\ stack' = SubSeq(stack, 1, Len(stack) - 1)
    /\ pc' = "ret"
    /\ UNCHANGED <<tree, node, pane, item_tasks, finished, new_items,
                   panes, pane_count>>
    /\ UNCHANGED <<workspace_alive, colVars, callVars>>

\* Lines 275-281 and 319-343: the Pane arm adds a pane to the workspace,
\* and deserialize_to dispatches one task per item and awaits them all.
PaneEnter ==
    /\ pc = "call"
    /\ node.type = "Pane"
    /\ workspace_alive
    /\ pane_count' = pane_count + 1
    /\ pane' = pane_count + 1
    /\ panes' = (pane_count + 1 :> NewPane) @@ panes
    /\ item_tasks' = DispatchTasks(node.children)
    /\ finished' = <<>>
    /\ pc' = "join"
    /\ UNCHANGED <<tree, node, stack, result, new_items>>
    /\ UNCHANGED <<workspace_alive, colVars, callVars>>

\* One pending item task completes with its deserializer's outcome.
TaskComplete(i) ==
    /\ pc = "join"
    /\ ~item_tasks[i].done
    /\ item_tasks' = [item_tasks EXCEPT ![i].done = TRUE,
                                        ![i].output = Rehydrated(item_tasks[i].item)]
    /\ finished' = Append(finished, i)
    /\ UNCHANGED <<tree, pc, node, stack, result, pane, new_items, panes,
                   pane_count>>
    /\ UNCHANGED <<workspace_alive, colVars, callVars>>

\* Lines 342-368: every task is complete; the items are added, the active
\* and the preview item are restored, and deserialize_to returns Ok(items).
DeserializeToReturn ==
    /\ pc = "join"
    /\ JoinAllResolved(item_tasks)
    /\ pane \in DOMAIN panes
    /\ LET outputs == JoinAll(item_tasks, finished) IN
       /\ new_items' = [i \in 1..Len(outputs) |-> LogErr(outputs[i])]
       /\ panes' = [panes EXCEPT ![pane] = RestoredPane(@, node.children, outputs)]
    /\ pc' = "pane_end"
    /\ UNCHANGED <<tree, node, stack, result, pane, item_tasks, finished,
                   pane_count>>
    /\ UNCHANGED <<workspace_alive, colVars, callVars>>

\* Lines 285-287: the pane has items and is returned.
PaneKeep ==
    /\ pc = "pane_end"
    /\ pane \in DOMAIN panes
    /\ ItemsLen(panes[pane]) # 0
    /\ result' = PaneResult(pane, node.active, new_items)
    /\ pc' = "ret"
    /\ UNCHANGED <<tree, node, stack, pane, item_tasks, finished, new_items,
                   panes, pane_count>>
    /\ UNCHANGED <<workspace_alive, colVars, callVars>>

\* The empty pane stays in the workspace and is returned as a member.
PaneRemoveKeepsEmptyPane ==
    /\ pc = "pane_end"
    /\ pane \in DOMAIN panes
    /\ ItemsLen(panes[pane]) = 0
    /\ result' = PaneResult(pane, node.active, new_items)
    /\ pc' = "ret"
    /\ UNCHANGED <<tree, node, stack, pane, item_tasks, finished, new_items,
                   panes, pane_count>>
    /\ UNCHANGED <<workspace_alive, colVars, callVars>>

\* Lines 288-294: the pane is empty; the workspace removes it.
PaneRemove ==
    /\ pc = "pane_end"
    /\ pane \in DOMAIN panes
    /\ ItemsLen(panes[pane]) = 0
    /\ panes' = [id \in DOMAIN panes \ {pane} |-> panes[id]]
    /\ result' = None
    /\ pc' = "ret"
    /\ UNCHANGED <<tree, node, stack, pane, item_tasks, finished, new_items,
                   pane_count>>
    /\ UNCHANGED <<workspace_alive, colVars, callVars>>

Next ==
    \/ GroupEnter
    \/ ChildSome
    \/ ChildNone
    \/ GroupReturn
    \/ PaneEnter
    \/ \E i \in 1..Len(item_tasks) : TaskComplete(i)
    \/ DeserializeToReturn
    \/ PaneKeep
    \/ PaneRemove

Spec == Init /\ [][Next]_vars

\* The outermost deserialize call has returned.
Returned == pc = "ret" /\ stack = <<>>

\* ---------------------------------------------------------------------
\* The column protocol: Bind and Column of DockData, DockStructure and
\* SerializedItem
\* ---------------------------------------------------------------------
\* Largest start index a value is bound at.
MaxStart == 1
\* Width in bits of ItemId in the model (u64 in the program).
ItemIdBits == 3

\* SQL values of a column.
SqlNull == <<"null">>
SqlInteger(i) == <<"integer", i>>
SqlText(t) == <<"text", t>>

\* sqlite3_column_int / sqlite3_column_int64 of a column
IntegerOf(v) == IF v[1] = "integer" THEN v[2] ELSE 0
\* sqlite3_column_text of a column
TextOf(v) == IF v[1] = "text" THEN v[2] ELSE ""

\* "x as i64" and "x as u64", at the width of the model
AsSigned(u) == IF u >= 2 ^ (ItemIdBits - 1) THEN u - 2 ^ ItemIdBits ELSE u
AsUnsigned(i) == IF i < 0 THEN i + 2 ^ ItemIdBits ELSE i

\* A statement with one more column bound.
Bound(stmt, index, v) == [stmt EXCEPT ![index] = v]

\* Bind for bool: bound as the integer 1 or 0
BindBool(stmt, b, start_index) ==
    [stmt |-> Bound(stmt, start_index, SqlInteger(IF b THEN 1 ELSE 0)),
     next |-> start_index + 1]

\* Bind for Option<String>: None is bound as NULL
BindOptionString(stmt, o, start_index) ==
    [stmt |-> Bound(stmt, start_index,
                    IF IsSome(o) THEN SqlText(Unwrap(o)) ELSE SqlNull),
     next |-> start_index + 1]

\* Bind for Arc<str>
BindText(stmt, t, start_index) ==
    [stmt |-> Bound(stmt, start_index, SqlText(t)), next |-> start_index + 1]

\* Bind for u64: bound as "x as i64"
BindU64(stmt, u, start_index) ==
    [stmt |-> Bound(stmt, start_index, SqlInteger(AsSigned(u))),
     next |-> start_index + 1]

\* Column for bool: the integer of the column is not 0
ColumnBool(stmt, start_index) ==
    [value |-> IntegerOf(stmt[start_index]) # 0, next |-> start_index + 1]

\* Column for Option<bool>: a NULL column is None
ColumnOptionBool(stmt, start_index) ==
    IF stmt[start_index] = SqlNull
    THEN [value |-> None, next |-> start_index + 1]
    ELSE [value |-> Some(ColumnBool(stmt, start_index).value),
          next |-> ColumnBool(stmt, start_index).next]

\* Column for Option<String>: a NULL column is None
ColumnOptionString(stmt, start_index) ==
    IF stmt[start_index] = SqlNull
    THEN [value |-> None, next |-> start_index + 1]
    ELSE [value |-> Some(TextOf(stmt[start_index])), next |-> start_index + 1]

\* Column for Arc<str>
ColumnText(stmt, start_index) ==
    [value |-> TextOf(stmt[start_index]), next |-> start_index + 1]

\* Column for u64: the 64-bit integer of the column "as u64"
ColumnU64(stmt, start_index) ==
    [value |-> AsUnsigned(IntegerOf(stmt[start_index])), next |-> start_index + 1]

\* Option::unwrap_or
UnwrapOr(o, default) == IF IsSome(o) THEN Unwrap(o) ELSE default

\* Lines 181-186
DockData(visible, active_panel, zoom) ==
    [visible |-> visible, active_panel |-> active_panel, zoom |-> zoom]

\* Lines 204-210: Bind for DockData
DockDataBind(stmt, d, start_index) ==
    LET b1 == BindBool(stmt, d.visible, start_index)
        b2 == BindOptionString(b1.stmt, d.active_panel, b1.next)
    IN  BindBool(b2.stmt, d.zoom, b2.next)

\* active_panel is read as a String that has to be there: a NULL column
\* becomes Some("").
DockDataColumnPanelRequired(stmt, start_index) ==
    LET visible == ColumnOptionBool(stmt, start_index)
        active_panel == ColumnText(stmt, visible.next)
        zoom == ColumnOptionBool(stmt, active_panel.next)
    IN  [value |-> DockData(UnwrapOr(visible.value, FALSE),
                            Some(active_panel.value),
                            UnwrapOr(zoom.value, FALSE)),
         next |-> zoom.next]

\* Lines 188-202: Column for DockData
DockDataColumn(stmt, start_index) ==
    LET visible == ColumnOptionBool(stmt, start_index)
        active_panel == ColumnOptionString(stmt, visible.next)
        zoom == ColumnOptionBool(stmt, active_panel.next)
    IN  [value |-> DockData(UnwrapOr(visible.value, FALSE),
                            active_panel.value,
                            UnwrapOr(zoom.value, FALSE)),
         next |-> zoom.next]

\* Lines 150-155
DockStructure(left, right, bottom) ==
    [left |-> left, right |-> right, bottom |-> bottom]

\* Lines 173-179: Bind for DockStructure
DockStructureBind(stmt, s, start_index) ==
    LET b1 == DockDataBind(stmt, s.left, start_index)
        b2 == DockDataBind(b1.stmt, s.right, b1.next)
    IN  DockDataBind(b2.stmt, s.bottom, b2.next)

\* The docks are read in the order left, bottom, right.
DockStructureColumnBottomBeforeRight(stmt, start_index) ==
    LET left == DockDataColumn(stmt, start_index)
        bottom == DockDataColumn(stmt, left.next)
        right == DockDataColumn(stmt, bottom.next)
    IN  [value |-> DockStructure(left.value, right.value, bottom.value),
         next |-> right.next]

\* Lines 157-171: Column for DockStructure
DockStructureColumn(stmt, start_index) ==
    LET left == DockDataColumn(stmt, start_index)
        right == DockDataColumn(stmt, left.next)
        bottom == DockDataColumn(stmt, right.next)
    IN  [value |-> DockStructure(left.value, right.value, bottom.value),
         next |-> bottom.next]

\* Lines 412-419: Bind for &SerializedItem
SerializedItemBind(stmt, item, start_index) ==
    LET b1 == BindText(stmt, item.kind, start_index)
        b2 == BindU64(b1.stmt, item.item_id, b1.next)
        b3 == BindBool(b2.stmt, item.active, b2.next)
    IN  BindBool(b3.stmt, item.preview, b3.next)

\* Lines 421-437: Column for SerializedItem
SerializedItemColumn(stmt, start_index) ==
    LET kind == ColumnText(stmt, start_index)
        item_id == ColumnU64(stmt, kind.next)
        active == ColumnBool(stmt, item_id.next)
        preview == ColumnBool(stmt, active.next)
    IN  [value |-> SerializedItem(kind.value, item_id.value, active.value,
                                  preview.value),
         next |-> preview.next]

\* Lines 407-411 and the column counts of DockData and DockStructure
ColumnCount(type) ==
    CASE type = "DockData" -> 3
      [] type = "DockStructure" -> 9
      [] type = "SerializedItem" -> 4

\* The values that are bound.
PanelNames == {"", "Project Panel"}
DockDatas ==
    { DockData(v, p, z) :
        v \in BOOLEAN, p \in {None} \cup { Some(n) : n \in PanelNames },
        z \in BOOLEAN }
DockStructures == { DockStructure(l, r, b) : l, r, b \in DockDatas }
ItemIds == 0..(2 ^ ItemIdBits - 1)
SerializedItems ==
    { SerializedItem(k, id, a, p) :
        k \in Kinds, id \in ItemIds, a \in BOOLEAN, p \in BOOLEAN }

ColumnValues ==
    { [type |-> "DockData", value |-> d] : d \in DockDatas }
    \cup { [type |-> "DockStructure", value |-> s] : s \in DockStructures }
    \cup { [type |-> "SerializedItem", value |-> i] : i \in SerializedItems }

\* Indices of the columns of the statement.
StatementColumns == 0..(MaxStart + 8)

InitColumns ==
    /\ tree = SerializedPane(<<>>, FALSE)
    /\ pc = "off"
    /\ node = tree
    /\ stack = <<>>
    /\ result = None
    /\ pane = 0
    /\ item_tasks = <<>>
    /\ finished = <<>>
    /\ new_items = <<>>
    /\ panes = <<>>
    /\ pane_count = 0
    /\ col_pc = "start"
    /\ col_value \in ColumnValues
    /\ col_start \in 0..MaxStart
    /\ statement = [i \in StatementColumns |-> SqlNull]
    /\ bind_next = 0
    /\ col_result = None
    /\ workspace_alive = TRUE
    /\ call_pc = "off"
    /\ call_args = None
    /\ call_local = None
    /\ call_result = None

\* What bind leaves for each type.
BindValue(stmt, v, start_index) ==
    CASE v.type = "DockData" -> DockDataBind(stmt, v.value, start_index)
      [] v.type = "DockStructure" -> DockStructureBind(stmt, v.value, start_index)
      [] v.type = "SerializedItem" -> SerializedItemBind(stmt, v.value, start_index)

\* x.bind(statement, start_index) for a value of the given type
Bind(type) ==
    /\ col_pc = "start"
    /\ col_value.type = type
    /\ LET b == BindValue(statement, col_value, col_start) IN
       /\ statement' = b.stmt
       /\ bind_next' = b.next
    /\ col_pc' = "bound"
    /\ UNCHANGED <<col_value, col_start, col_result>>
    /\ UNCHANGED <<treeVars, callVars>>

BindDockData == Bind("DockData")
BindDockStructure == Bind("DockStructure")
BindSerializedItem == Bind("SerializedItem")

\* T::column(statement, start_index) on the row that holds what was bound
Column(type, read) ==
    /\ col_pc = "bound"
    /\ col_value.type = type
    /\ col_result' = Some(read)
    /\ col_pc' = "read"
    /\ UNCHANGED <<col_value, col_start, statement, bind_next>>
    /\ UNCHANGED <<treeVars, callVars>>

ColumnDockData == Column("DockData", DockDataColumn(statement, col_start))
ColumnDockStructure ==
    Column("DockStructure", DockStructureColumn(statement, col_start))
ColumnSerializedItem ==
    Column("SerializedItem", SerializedItemColumn(statement, col_start))

NextColumns ==
    \/ BindDockData
    \/ BindDockStructure
    \/ BindSerializedItem
    \/ ColumnDockData
    \/ ColumnDockStructure
    \/ ColumnSerializedItem

SpecColumns == InitColumns /\ [][NextColumns]_vars

\* ---------------------------------------------------------------------
\* Idle values of the three groups of variables
\* ---------------------------------------------------------------------
\* No deserialize call is running.
TreeIdle ==
    /\ tree = SerializedPane(<<>>, FALSE)
    /\ pc = "off"
    /\ node = tree
    /\ stack = <<>>
    /\ result = None
    /\ pane = 0
    /\ item_tasks = <<>>
    /\ finished = <<>>
    /\ new_items = <<>>
    /\ panes = <<>>
    /\ pane_count = 0

\* No value is being bound or read.
ColumnsIdle ==
    /\ col_pc = "off"
    /\ col_value = None
    /\ col_start = 0
    /\ statement = <<>>
    /\ bind_next = 0
    /\ col_result = None

\* No plain function is being called.
CallIdle ==
    /\ call_pc = "off"
    /\ call_args = None
    /\ call_local = None
    /\ call_result = None

\* ---------------------------------------------------------------------
\* DockData::column on a stored row whose columns may be NULL
\* ---------------------------------------------------------------------
\* What a stored bool column and a stored panel column can hold.
StoredBools == {SqlNull, SqlInteger(0), SqlInteger(1)}
StoredPanels == {SqlNull} \cup { SqlText(n) : n \in PanelNames }

\* Rows that hold the three columns of a DockData from start on.
StoredRows(start) ==
    { [i \in StatementColumns |->
          IF i = start THEN v
          ELSE IF i = start + 1 THEN p
          ELSE IF i = start + 2 THEN z
          ELSE SqlNull] :
        v \in StoredBools, p \in StoredPanels, z \in StoredBools }

InitStored ==
    /\ TreeIdle
    /\ workspace_alive = TRUE
    /\ CallIdle
    /\ col_pc = "stored"
    /\ col_value = None
    /\ col_start \in 0..MaxStart
    /\ statement \in StoredRows(col_start)
    /\ bind_next = 0
    /\ col_result = None

\* Lines 188-202: DockData::column(statement, start_index) on a stored row
ColumnStoredDockData ==
    /\ col_pc = "stored"
    /\ col_result' = Some(DockDataColumn(statement, col_start))
    /\ col_pc' = "read"
    /\ UNCHANGED <<col_value, col_start, statement, bind_next>>
    /\ UNCHANGED <<treeVars, callVars>>

NextStored == ColumnStoredDockData

SpecStored == InitStored /\ [][NextStored]_vars

\* ---------------------------------------------------------------------
\* WorkspaceLocation and its constructors
\* ---------------------------------------------------------------------
MaxPaths == 2
MaxProjects == 2

\* Paths as the caller writes them; "/a/" names the same path as "/a".
Paths == {"/a", "/a/", "/b"}

\* The components PathBuf's equality compares.
Components(p) ==
    CASE p = "/a" -> <<"/", "a">>
      [] p = "/a/" -> <<"/", "a">>
      [] p = "/b" -> <<"/", "b">>

PathEq(p, q) == Components(p) = Components(q)

PathLists == UNION { [1..n -> Paths] : n \in 0..MaxPaths }

\* Lines 20-24
SerializedRemoteProject(id, dev_server_name) ==
    [id |-> id, dev_server_name |-> dev_server_name]

\* Lines 26-30
WorkspaceLocation(paths, remote_project) ==
    [paths |-> paths, remote_project |-> remote_project]

\* Line 26: derived PartialEq, field by field; a Vec is compared element
\* by element.
LocationEq(l1, l2) ==
    /\ Len(l1.paths) = Len(l2.paths)
    /\ \A i \in 1..Len(l1.paths) : PathEq(l1.paths[i], l2.paths[i])
    /\ l1.remote_project = l2.remote_project

\* The order of paths that sort() uses.
PathRank(p) == IF Components(p) = <<"/", "a">> THEN 1 ELSE 2

RECURSIVE InsertPath(_, _)
InsertPath(sorted, p) ==
    IF sorted = <<>> THEN <<p>>
    ELSE IF PathRank(p) < PathRank(Head(sorted)) THEN <<p>> \o sorted
    ELSE <<Head(sorted)>> \o InsertPath(Tail(sorted), p)

RECURSIVE SortPaths(_)
SortPaths(paths) ==
    IF paths = <<>> THEN <<>>
    ELSE InsertPath(SortPaths(SubSeq(paths, 1, Len(paths) - 1)), paths[Len(paths)])

\* The roots are sorted before the location is built, as in the From impl
\* that is commented out at lines 87-96.
LocalSorted(paths) == WorkspaceLocation(SortPaths(paths), None)

\* Lines 33-43: WorkspaceLocation::local
Local(paths) ==
    WorkspaceLocation([i \in 1..Len(paths) |-> paths[i]], None)

\* The remote project directory: the projects and dev servers it knows.
RemoteProjectIds == 1..MaxProjects
DevServerIds == {1, 2}
DevServerNames == {"zed-dev"}

RemoteProjects ==
    UNION { [ids -> [path : {"/a"}, dev_server_id : DevServerIds]] :
            ids \in SUBSET RemoteProjectIds }

DevServers ==
    UNION { [ids -> [name : DevServerNames]] : ids \in SUBSET DevServerIds }

Stores == [remote_projects : RemoteProjects, dev_servers : DevServers]

FindRemoteProjectById(store, id) ==
    IF id \in DOMAIN store.remote_projects
    THEN Some(store.remote_projects[id])
    ELSE None

DevServer(store, id) ==
    IF id \in DOMAIN store.dev_servers THEN Some(store.dev_servers[id]) ELSE None

\* String::default()
UnwrapOrDefault(o) == IF IsSome(o) THEN Unwrap(o) ELSE ""

\* An id the directory does not know yields a location without a remote
\* descriptor.
RemoteLocalWhenMissing(store, remote_project_id) ==
    LET found == FindRemoteProjectById(store, remote_project_id)
    IN  IF IsSome(found)
        THEN LET dev_server == DevServer(store, Unwrap(found).dev_server_id)
             IN  WorkspaceLocation(
                     <<Unwrap(found).path>>,
                     Some(SerializedRemoteProject(
                         remote_project_id,
                         UnwrapOrDefault(IF IsSome(dev_server)
                                         THEN Some(Unwrap(dev_server).name)
                                         ELSE None))))
        ELSE WorkspaceLocation(<<>>, None)

\* Lines 45-67: WorkspaceLocation::remote
Remote(store, remote_project_id) ==
    LET found == FindRemoteProjectById(store, remote_project_id)
        paths == IF IsSome(found) THEN <<Unwrap(found).path>> ELSE <<>>
        dev_server ==
            IF IsSome(found)
            THEN DevServer(store, Unwrap(found).dev_server_id)
            ELSE None
        dev_server_name ==
            IF IsSome(dev_server) THEN Some(Unwrap(dev_server).name) ELSE None
    IN  WorkspaceLocation(
            paths,
            Some(SerializedRemoteProject(remote_project_id,
                                         UnwrapOrDefault(dev_server_name))))

\* A call of local on each of two path lists, or a call of remote.
InitLocation ==
    /\ TreeIdle
    /\ workspace_alive = TRUE
    /\ ColumnsIdle
    /\ call_local = None
    /\ call_result = None
    /\ \/ /\ call_pc = "local"
          /\ call_args \in [paths : PathLists, other : PathLists]
       \/ /\ call_pc = "remote"
          /\ call_args \in [store : Stores, remote_project_id : RemoteProjectIds]

LocalCall ==
    /\ call_pc = "local"
    /\ call_result' = [this |-> Local(call_args.paths),
                       other |-> Local(call_args.other)]
    /\ call_pc' = "local_ret"
    /\ UNCHANGED <<call_args, call_local>>
    /\ UNCHANGED <<treeVars, colVars>>

RemoteCall ==
    /\ call_pc = "remote"
    /\ call_result' = Remote(call_args.store, call_args.remote_project_id)
    /\ call_pc' = "remote_ret"
    /\ UNCHANGED <<call_args, call_local>>
    /\ UNCHANGED <<treeVars, colVars>>

NextLocation == LocalCall \/ RemoteCall

SpecLocation == InitLocation /\ [][NextLocation]_vars

\* ---------------------------------------------------------------------
\* TaskStatusIndicator::current_status (status_indicator.rs)
\* ---------------------------------------------------------------------
MaxHandles == 3

\* terminal::TaskStatus: the two variants the match names, and one the
\* wildcard arm at line 55 takes.
TerminalRunning == <<"Running">>
TerminalCompleted(success) == <<"Completed", success>>
TerminalUnknown == <<"Unknown">>
TerminalTaskStatuses ==
    {TerminalRunning, TerminalCompleted(TRUE), TerminalCompleted(FALSE),
     TerminalUnknown}

\* A weak terminal handle: released, or a terminal with or without a task.
TerminalHandles ==
    {[upgrade |-> None]}
        \cup {[upgrade |-> Some([task |-> None])]}
        \cup { [upgrade |-> Some([task |-> Some([status |-> s])])] :
               s \in TerminalTaskStatuses }

HandleLists == UNION { [1..n -> TerminalHandles] : n \in 0..MaxHandles }

\* Lines 11-15
TaskStatuses == {"Failed", "Running", "Succeeded"}

\* Option::insert
OptionInsert(o, v) == Some(v)

\* Option::get_or_insert
GetOrInsert(o, v) == IF IsSome(o) THEN o ELSE Some(v)

\* The task state of the handle the loop is at, if the handle upgrades and
\* the terminal has a task (lines 38-43).
TaskStateAt(handles, i) ==
    IF IsSome(handles[i].upgrade) THEN Unwrap(handles[i].upgrade).task ELSE None

InitStatus ==
    /\ TreeIdle
    /\ ColumnsIdle
    /\ workspace_alive \in BOOLEAN
    /\ call_pc = "current_status"
    /\ call_args \in [handles : HandleLists]
    /\ call_local = None
    /\ call_result = None

\* Lines 32-35: workspace.update runs the closure
StatusEnter ==
    /\ call_pc = "current_status"
    /\ workspace_alive
    /\ call_local' = [status |-> None, next |-> 1]
    /\ call_pc' = "for"
    /\ UNCHANGED <<call_args, call_result>>
    /\ UNCHANGED <<treeVars, colVars>>

\* Lines 32-33, 61-62: the workspace is released, update is an Err
StatusWorkspaceReleased ==
    /\ call_pc = "current_status"
    /\ ~workspace_alive
    /\ call_result' = None
    /\ call_pc' = "status_ret"
    /\ UNCHANGED <<call_args, call_local>>
    /\ UNCHANGED <<treeVars, colVars>>

\* Lines 38-40, 43, 55: a handle the loop passes over
HandleSkipped ==
    /\ call_pc = "for"
    /\ call_local.next <= Len(call_args.handles)
    /\ LET state == TaskStateAt(call_args.handles, call_local.next)
       IN  \/ ~IsSome(state)
           \/ /\ IsSome(state)
              /\ Unwrap(state).status \notin
                     {TerminalRunning, TerminalCompleted(TRUE),
                      TerminalCompleted(FALSE)}
    /\ call_local' = [call_local EXCEPT !.next = @ + 1]
    /\ UNCHANGED <<call_pc, call_args, call_result>>
    /\ UNCHANGED <<treeVars, colVars>>

\* Lines 45-47
TaskRunning ==
    /\ call_pc = "for"
    /\ call_local.next <= Len(call_args.handles)
    /\ LET state == TaskStateAt(call_args.handles, call_local.next)
       IN  /\ IsSome(state)
           /\ Unwrap(state).status = TerminalRunning
    /\ call_local' = [status |-> OptionInsert(call_local.status, "Running"),
                      next |-> call_local.next + 1]
    /\ UNCHANGED <<call_pc, call_args, call_result>>
    /\ UNCHANGED <<treeVars, colVars>>

\* Lines 48-52: Completed { success: false } returns at once
TaskFailed ==
    /\ call_pc = "for"
    /\ call_local.next <= Len(call_args.handles)
    /\ LET state == TaskStateAt(call_args.handles, call_local.next)
       IN  /\ IsSome(state)
           /\ Unwrap(state).status = TerminalCompleted(FALSE)
    /\ call_local' = [call_local EXCEPT
                          !.status = OptionInsert(call_local.status, "Failed")]
    /\ call_result' = OptionInsert(call_local.status, "Failed")
    /\ call_pc' = "status_ret"
    /\ UNCHANGED call_args
    /\ UNCHANGED <<treeVars, colVars>>

\* Lines 48, 53: Completed { success: true }
TaskSucceeded ==
    /\ call_pc = "for"
    /\ call_local.next <= Len(call_args.handles)
    /\ LET state == TaskStateAt(call_args.handles, call_local.next)
       IN  /\ IsSome(state)
           /\ Unwrap(state).status = TerminalCompleted(TRUE)
    /\ call_local' = [status |-> GetOrInsert(call_local.status, "Succeeded"),
                      next |-> call_local.next + 1]
    /\ UNCHANGED <<call_pc, call_args, call_result>>
    /\ UNCHANGED <<treeVars, colVars>>

\* Lines 59-62: the loop is over
StatusReturn ==
    /\ call_pc = "for"
    /\ call_local.next > Len(call_args.handles)
    /\ call_result' = call_local.status
    /\ call_pc' = "status_ret"
    /\ UNCHANGED <<call_args, call_local>>
    /\ UNCHANGED <<treeVars, colVars>>

NextStatus ==
    \/ StatusEnter
    \/ StatusWorkspaceReleased
    \/ HandleSkipped
    \/ TaskRunning
    \/ TaskFailed
    \/ TaskSucceeded
    \/ StatusReturn

SpecStatus == InitStatus /\ [][NextStatus]_vars

\* ---------------------------------------------------------------------
\* What the persisted tree says, for stating the properties
\* ---------------------------------------------------------------------
\* The item rehydrates.
ItemOk(item) == IsSome(Rehydrated(item))

\* The handles of the items of a persisted pane that rehydrate, in
\* persisted order.
SurvivingItems(children) ==
    LET ok == SelectSeq(children, ItemOk)
    IN  [i \in 1..Len(ok) |-> ok[i].item_id]

RECURSIVE Leaves(_)
\* The persisted panes of a tree in document order.  The workspace adds
\* one pane per persisted pane, so the k-th of them gets pane id k.
Leaves(t) ==
    IF t.type = "Pane" THEN <<t>>
    ELSE IF t.children = <<>> THEN <<>>
    ELSE Leaves(t.children[1]) \o
         Leaves([t EXCEPT !.children = Tail(@)])

\* Pane ids of the persisted panes of a tree that end with an item.
SurvivingLeaves(t) ==
    { k \in 1..Len(Leaves(t)) : SurvivingItems(Leaves(t)[k].children) # <<>> }

RECURSIVE LeavesBefore(_, _)
\* Number of persisted panes in the first n children of a group.
LeavesBefore(group, n) ==
    IF n = 0 THEN 0
    ELSE LeavesBefore(group, n - 1) + Len(Leaves(group.children[n]))

\* Pane ids of the surviving panes under the i-th child of a group that
\* is the whole tree.
SurvivingUnder(group, i) ==
    { k \in SurvivingLeaves(group) :
        /\ k > LeavesBefore(group, i - 1)
        /\ k <= LeavesBefore(group, i) }

RECURSIVE MemberPanes(_)
\* The pane ids of a live member, left to right.
MemberPanes(m) ==
    IF m.type = "Pane" THEN <<m.pane>>
    ELSE IF m.members = <<>> THEN <<>>
    ELSE MemberPanes(m.members[1]) \o
         MemberPanes([m EXCEPT !.members = Tail(@)])

\* The elements of a sequence, as a set.
Range(s) == { s[i] : i \in 1..Len(s) }

\* A sequence of numbers is strictly increasing.
Increasing(s) == \A i, j \in 1..Len(s) : i < j => s[i] < s[j]

\* ---------------------------------------------------------------------
\* Properties
\* ---------------------------------------------------------------------
\* C1: when deserialize_to has finished, the items of the live pane are
\* exactly the items that rehydrated, in the order of their SerializedItem
\* entries, whatever the order in which the item tasks completed.
C1_ItemsInPersistedOrder ==
    pc = "pane_end" => panes[pane].items = SurvivingItems(node.children)

\* deserialize_to has finished on a pane with two rehydrated items whose
\* tasks completed in the reverse of their persisted order.
C1_Witness ==
    /\ pc = "pane_end"
    /\ \E a, b \in 1..Len(finished) :
        /\ a < b
        /\ finished[a] > finished[b]
        /\ ItemOk(node.children[finished[a]])
        /\ ItemOk(node.children[finished[b]])
        /\ finished[a] \in Range(panes[pane].items)
        /\ finished[b] \in Range(panes[pane].items)

\* C2: if the item persisted as active failed to rehydrate, the restore
\* step of deserialize_to activates no item of the live pane.
C2_NoItemActivatedForFailedActive ==
    pc = "pane_end" =>
        LET a == ActiveItemIndex(node.children) IN
        (IsSome(a) /\ ~ItemOk(node.children[Unwrap(a) + 1]))
            => panes[pane].active_item_index = None

\* C9: if the item persisted as preview failed to rehydrate, deserialize_to
\* sets no item of the live pane as the preview item.
C9_NoPreviewForFailedPreview ==
    pc = "pane_end" =>
        LET v == PreviewItemIndex(node.children) IN
        (IsSome(v) /\ ~ItemOk(node.children[Unwrap(v) + 1]))
            => panes[pane].preview_item_id = None

\* ---------------------------------------------------------------------
\* The returned live tree, compared with the persisted tree
\* ---------------------------------------------------------------------
\* Indices of the children of a group that is the whole tree under which
\* some pane survives.
SurvivingChildren(group) ==
    SelectSeq([i \in 1..Len(group.children) |-> i],
              LAMBDA i : SurvivingUnder(group, i) # {})

\* The least element of a non-empty set of numbers.
Least(S) == CHOOSE k \in S : \A j \in S : k <= j

\* Pane ids of the surviving panes that were persisted with active = true.
ActiveSurvivors(t) == { k \in SurvivingLeaves(t) : Leaves(t)[k].active }

RECURSIVE View(_)
\* A live member together with the items its panes hold in the workspace.
View(m) ==
    IF m.type = "Pane"
    THEN [type |-> "Pane", pane |-> m.pane,
          items |-> IF m.pane \in DOMAIN panes
                    THEN panes[m.pane].items ELSE <<"removed">>]
    ELSE [type |-> "Axis", axis |-> m.axis, flexes |-> m.flexes,
          members |-> [i \in 1..Len(m.members) |-> View(m.members[i])]]

\* The view of the returned member, or None.
ReturnedView == IF IsSome(result) THEN Some(View(Unwrap(result).member)) ELSE None

RECURSIVE Strip(_)
\* The persisted tree without the items that fail to rehydrate.
Strip(t) ==
    IF t.type = "Pane"
    THEN [t EXCEPT !.children = SelectSeq(@, ItemOk)]
    ELSE [t EXCEPT !.children = [i \in 1..Len(@) |-> Strip(@[i])]]

RECURSIVE Reconstruction(_, _)
\* The live tree a persisted tree whose items all rehydrate stands for:
\* panes without items and groups without children are absent, a group of
\* one child is that child.  The first pane of t gets pane id base + 1.
Reconstruction(t, base) ==
    IF t.type = "Pane"
    THEN IF t.children = <<>> THEN None
         ELSE Some([type |-> "Pane", pane |-> base + 1,
                    items |-> [i \in 1..Len(t.children) |-> t.children[i].item_id]])
    ELSE LET kids == [i \in 1..Len(t.children) |->
                         Reconstruction(t.children[i], base + LeavesBefore(t, i - 1))]
             live == SelectSeq(kids, IsSome)
         IN  IF live = <<>> THEN None
             ELSE IF Len(live) = 1 THEN live[1]
             ELSE Some([type |-> "Axis", axis |-> t.axis, flexes |-> t.flexes,
                        members |-> [i \in 1..Len(live) |-> Unwrap(live[i])]])

RECURSIVE Mirror(_, _)
\* The persisted tree as a live tree, node for node: every pane with all
\* its items, every group with all its children, except that a group of
\* one child is that child.
Mirror(t, base) ==
    IF t.type = "Pane"
    THEN [type |-> "Pane", pane |-> base + 1,
          items |-> [i \in 1..Len(t.children) |-> t.children[i].item_id]]
    ELSE IF Len(t.children) = 1 THEN Mirror(t.children[1], base)
    ELSE [type |-> "Axis", axis |-> t.axis, flexes |-> t.flexes,
          members |-> [i \in 1..Len(t.children) |->
                          Mirror(t.children[i], base + LeavesBefore(t, i - 1))]]

\* Every item of every pane of the tree rehydrates.
AllItemsOk(t) ==
    \A k \in 1..Len(Leaves(t)) :
        \A i \in 1..Len(Leaves(t)[k].children) : ItemOk(Leaves(t)[k].children[i])

\* Every pane of the tree has an item.
NoEmptyPane(t) == \A k \in 1..Len(Leaves(t)) : Leaves(t)[k].children # <<>>

RECURSIVE AxesHaveAtLeast(_, _)
\* Every axis of a live member, at any depth, has at least n members.
AxesHaveAtLeast(m, n) ==
    m.type = "Axis" =>
        /\ Len(m.members) >= n
        /\ \A i \in 1..Len(m.members) : AxesHaveAtLeast(m.members[i], n)

\* C3: the members of the live axis of a group are its surviving children
\* in persisted order, each once: of [A, B, C] with B absent, [A, C].
C3_SurvivingChildrenInOrder ==
    (Returned /\ tree.type = "Group" /\ Len(SurvivingChildren(tree)) >= 2) =>
        /\ IsSome(result)
        /\ LET m == Unwrap(result).member
               surv == SurvivingChildren(tree)
           IN  /\ m.type = "Axis"
               /\ Len(m.members) = Len(surv)
               /\ \A k \in 1..Len(surv) :
                    /\ Range(MemberPanes(m.members[k])) = SurvivingUnder(tree, surv[k])
                    /\ Increasing(MemberPanes(m.members[k]))

\* A group of three children was reconstructed, the second yielded no
\* node, and the returned axis has two members.
C3_Witness ==
    /\ Returned
    /\ tree.type = "Group"
    /\ Len(tree.children) = 3
    /\ SurvivingChildren(tree) = <<1, 3>>
    /\ IsSome(result)
    /\ Unwrap(result).member.type = "Axis"
    /\ Len(Unwrap(result).member.members) = 2

\* C4: when two or more surviving panes were persisted active, the active
\* pane deserialize returns is the first of them in document order.
C4_FirstActivePaneWins ==
    (Returned /\ Cardinality(ActiveSurvivors(tree)) >= 2) =>
        /\ IsSome(result)
        /\ Unwrap(result).active_pane = Some(Least(ActiveSurvivors(tree)))

\* Two surviving panes were persisted active and deserialize returned,
\* the item tasks of the last pane having completed out of order.
C4_Witness ==
    /\ Returned
    /\ Cardinality(ActiveSurvivors(tree)) >= 2
    /\ finished = <<2, 1>>
    /\ IsSome(result)
    /\ IsSome(Unwrap(result).active_pane)

\* C5: items that fail are dropped and nothing else changes: the returned
\* tree and the items of its panes are those of the persisted tree
\* without the failed items.
C5_FailureIsolation ==
    (Returned /\ ~AllItemsOk(tree)) => ReturnedView = Reconstruction(Strip(tree), 0)

\* deserialize returned a live tree for a persisted tree of which at
\* least one item failed.
C5_Witness ==
    /\ Returned
    /\ ~AllItemsOk(tree)
    /\ IsSome(result)
    /\ \E k \in DOMAIN panes : Len(panes[k].items) >= 2

\* C6 as claimed: when every item rehydrates, the live tree mirrors the
\* persisted tree (a group of one child being that child).
C6_MirrorsPersistedTree ==
    (Returned /\ AllItemsOk(tree)) => ReturnedView = Some(Mirror(tree, 0))

\* C6: when every pane has an item and every item rehydrates, the live
\* tree mirrors the persisted tree: same children in the same order at
\* every group, same items in the same order in every pane, a group of
\* one child being that child.
C6_MirrorsTreeWithoutEmptyPane ==
    (Returned /\ AllItemsOk(tree) /\ NoEmptyPane(tree)) =>
        ReturnedView = Some(Mirror(tree, 0))

\* deserialize returned for a tree with a group inside a group of which
\* every item rehydrated.
C6_Witness ==
    /\ Returned
    /\ AllItemsOk(tree)
    /\ NoEmptyPane(tree)
    /\ tree.type = "Group"
    /\ \E i \in 1..Len(tree.children) :
        tree.children[i].type = "Group" /\ Len(tree.children[i].children) >= 2
    /\ IsSome(result)
    /\ Len(MemberPanes(Unwrap(result).member)) >= 3

\* C7: every axis of a returned member has at least two members, and when
\* a single pane of the tree survives, deserialize returns that pane
\* itself with its active-pane signal and its items.
C7_NoSingletonAxis ==
    /\ (pc = "ret" /\ IsSome(result)) => AxesHaveAtLeast(Unwrap(result).member, 2)
    /\ (Returned /\ Cardinality(SurvivingLeaves(tree)) = 1) =>
        LET k == Least(SurvivingLeaves(tree))
            leaf == Leaves(tree)[k]
        IN  result = Some([member |-> MemberPane(k),
                           active_pane |-> IF leaf.active THEN Some(k) ELSE None,
                           items |-> [i \in 1..Len(leaf.children) |->
                                         Rehydrated(leaf.children[i])]])

\* A group of several panes was reconstructed and one pane survived.
C7_Witness ==
    /\ Returned
    /\ tree.type = "Group"
    /\ Len(Leaves(tree)) >= 2
    /\ Cardinality(SurvivingLeaves(tree)) = 1
    /\ IsSome(result)
    /\ Unwrap(result).member.type = "Pane"

\* C8: a group none of whose children yields a node yields no node, at
\* every level, and no returned axis has zero members.
C8_EmptyGroupIsAbsent ==
    /\ (pc = "ret" /\ IsSome(result)) => AxesHaveAtLeast(Unwrap(result).member, 1)
    /\ (Returned /\ tree.type = "Group" /\ SurvivingLeaves(tree) = {})
            => result = None

\* A group that contains a group was reconstructed, every pane failed,
\* and deserialize returned None.
C8_Witness ==
    /\ Returned
    /\ tree.type = "Group"
    /\ \E i \in 1..Len(tree.children) : tree.children[i].type = "Group"
    /\ SurvivingLeaves(tree) = {}
    /\ result = None
    /\ DOMAIN panes = {}

\* C10: a DockData, DockStructure or SerializedItem bound at a start
\* index and read back from that index is the value that was bound, and
\* bind and column return the same next index: 3, 9 and 4 columns on.
C10_ColumnRoundTrip ==
    col_pc = "read" =>
        /\ Unwrap(col_result).value = col_value.value
        /\ Unwrap(col_result).next = bind_next
        /\ bind_next = col_start + ColumnCount(col_value.type)

\* A DockStructure whose three docks differ was bound at a start index
\* other than 0 and read back.
C10_Witness ==
    /\ col_pc = "read"
    /\ col_value.type = "DockStructure"
    /\ col_start > 0
    /\ col_value.value.left # col_value.value.right
    /\ col_value.value.right # col_value.value.bottom
    /\ col_value.value.right.active_panel = None
    /\ Unwrap(col_result).value = col_value.value

\* C11: DockData::column on a row whose columns may be NULL returns a
\* value: a NULL visible is false, a NULL active_panel is None, a NULL
\* zoom is false, each column decided by itself, and the next index is
\* the start index plus 3.
C11_NullColumnsDefault ==
    col_pc = "read" =>
        /\ IsSome(col_result)
        /\ LET r == Unwrap(col_result)
               v == statement[col_start]
               p == statement[col_start + 1]
               z == statement[col_start + 2]
           IN  /\ r.next = col_start + 3
               /\ r.value.visible = (v = SqlInteger(1))
               /\ r.value.active_panel = (IF p = SqlNull THEN None ELSE Some(p[2]))
               /\ r.value.zoom = (z = SqlInteger(1))

\* A row whose visible and active_panel are NULL and whose zoom is stored
\* as true was read at a start index other than 0.
C11_Witness ==
    /\ col_pc = "read"
    /\ col_value = None
    /\ col_start > 0
    /\ statement[col_start] = SqlNull
    /\ statement[col_start + 1] = SqlNull
    /\ statement[col_start + 2] = SqlInteger(1)
    /\ Unwrap(col_result).value = DockData(FALSE, None, TRUE)

\* C12: WorkspaceLocation::remote(id) always returns a location with a
\* remote descriptor carrying id: for an id the directory does not know
\* the paths are empty and the name is ""; for a known id there is exactly
\* one path, the project's, and the name is the dev server's, or "" when
\* the dev server is not known.
C12_RemoteNeverFails ==
    call_pc = "remote_ret" =>
        LET store == call_args.store
            id == call_args.remote_project_id
        IN  /\ IsSome(call_result.remote_project)
            /\ Unwrap(call_result.remote_project).id = id
            /\ id \notin DOMAIN store.remote_projects =>
                   /\ call_result.paths = <<>>
                   /\ Unwrap(call_result.remote_project).dev_server_name = ""
            /\ id \in DOMAIN store.remote_projects =>
                   /\ call_result.paths = <<store.remote_projects[id].path>>
                   /\ LET ds == store.remote_projects[id].dev_server_id
                      IN  Unwrap(call_result.remote_project).dev_server_name =
                              IF ds \in DOMAIN store.dev_servers
                              THEN store.dev_servers[ds].name
                              ELSE ""

\* remote returned for an id the directory does not know although it
\* knows another project.
C12_Witness ==
    /\ call_pc = "remote_ret"
    /\ call_args.store.remote_projects # <<>>
    /\ call_args.remote_project_id \notin DOMAIN call_args.store.remote_projects
    /\ call_result = WorkspaceLocation(<<>>,
           Some(SerializedRemoteProject(call_args.remote_project_id, "")))

\* remote returned for a known project whose dev server is not known,
\* while another dev server is.
C12_WitnessUnknownDevServer ==
    /\ call_pc = "remote_ret"
    /\ call_args.remote_project_id \in DOMAIN call_args.store.remote_projects
    /\ call_args.store.dev_servers # <<>>
    /\ call_args.store.remote_projects[call_args.remote_project_id].dev_server_id
           \notin DOMAIN call_args.store.dev_servers
    /\ Len(call_result.paths) = 1

\* C13: WorkspaceLocation::local(paths) holds the paths as given (same
\* length, order and duplicates) and no remote descriptor, and two local
\* locations are equal iff their path lists are equal element by element.
C13_LocalKeepsPaths ==
    call_pc = "local_ret" =>
        /\ call_result.this.paths = call_args.paths
        /\ call_result.this.remote_project = None
        /\ LocationEq(call_result.this, call_result.other) <=>
               /\ Len(call_args.paths) = Len(call_args.other)
               /\ \A i \in 1..Len(call_args.paths) :
                      PathEq(call_args.paths[i], call_args.other[i])

\* local(["/b", "/a"]) and local(["/a", "/b"]) were built and are not
\* equal.
C13_Witness ==
    /\ call_pc = "local_ret"
    /\ call_args.paths = <<"/b", "/a">>
    /\ call_args.other = <<"/a", "/b">>
    /\ ~LocationEq(call_result.this, call_result.other)

\* The statuses of the tasks of the terminals that are still there.
TasksOf(handles) ==
    { Unwrap(TaskStateAt(handles, i)).status :
        i \in { j \in 1..Len(handles) : IsSome(TaskStateAt(handles, j)) } }

\* The status the doc comment at lines 17-22 describes.
DocumentedStatus(handles) ==
    LET tasks == TasksOf(handles)
    IN  IF TerminalCompleted(FALSE) \in tasks THEN Some("Failed")
        ELSE IF TerminalRunning \in tasks THEN Some("Running")
        ELSE IF tasks # {} /\ tasks = {TerminalCompleted(TRUE)} THEN Some("Succeeded")
        ELSE None

\* C14: current_status returns Failed if any task completed without
\* success; else Running if any task is running; else Succeeded if there
\* is a task and all tasks completed with success; else no status.
\* Handles that do not upgrade or carry no task are ignored.
C14_StatusAsDocumented ==
    (call_pc = "status_ret" /\ workspace_alive) =>
        call_result = DocumentedStatus(call_args.handles)

\* The same, for terminals whose tasks are all Running or Completed.
C14_StatusWithoutOtherTasks ==
    (/\ call_pc = "status_ret"
     /\ workspace_alive
     /\ TerminalUnknown \notin TasksOf(call_args.handles)) =>
        call_result = DocumentedStatus(call_args.handles)

\* A task of another status and a task that succeeded give Succeeded.
C14_OtherStatusIgnored ==
    /\ call_pc = "status_ret"
    /\ workspace_alive
    /\ TasksOf(call_args.handles) = {TerminalUnknown, TerminalCompleted(TRUE)}
    /\ call_result = Some("Succeeded")

\* C15: a live pane that has no item once its batch has been processed is
\* removed from the workspace and its leaf returns None: outside the
\* processing of a pane no pane of the workspace is empty, every pane of a
\* returned member is in the workspace and has an item, and at the end the
\* workspace holds exactly the panes whose persisted pane had an item that
\* rehydrated.
C15_NoEmptyPaneSurvives ==
    /\ \A id \in DOMAIN panes :
           ItemsLen(panes[id]) = 0 => (id = pane /\ pc \in {"join", "pane_end"})
    /\ (pc = "ret" /\ IsSome(result)) =>
           \A id \in Range(MemberPanes(Unwrap(result).member)) :
               id \in DOMAIN panes /\ ItemsLen(panes[id]) # 0
    /\ Returned => DOMAIN panes = SurvivingLeaves(tree)

\* A tree was returned after a pane whose items all failed was removed.
C15_Witness ==
    /\ Returned
    /\ IsSome(result)
    /\ tree.type = "Group"
    /\ 1 \notin DOMAIN panes
    /\ Leaves(tree)[1].children # <<>>
    /\ pane_count > Len(MemberPanes(Unwrap(result).member))

\* The item tasks that have been dispatched and are not complete.
InFlight == { i \in 1..Len(item_tasks) : ~item_tasks[i].done }

\* Every pane allocated so far holds the items of its persisted pane that
\* rehydrated, or was removed because there were none.
EarlierPanesFilled ==
    \A id \in 1..pane_count :
        IF id \in DOMAIN panes
        THEN panes[id].items = SurvivingItems(Leaves(tree)[id].children)
        ELSE SurvivingItems(Leaves(tree)[id].children) = <<>>

\* The tasks in flight belong to the pane allocated last, which is the
\* pane deserialize_to is awaiting.
C17_InFlightInOnePane ==
    InFlight # {} =>
        /\ pc = "join"
        /\ pane = pane_count
        /\ node = Leaves(tree)[pane]
        /\ \A i \in 1..Len(item_tasks) : item_tasks[i].item = node.children[i]
        /\ \A id \in 1..(pane_count - 1) :
               IF id \in DOMAIN panes
               THEN panes[id].items = SurvivingItems(Leaves(tree)[id].children)
               ELSE SurvivingItems(Leaves(tree)[id].children) = <<>>

\* A pane is allocated, and its tasks dispatched, only when no task is in
\* flight and every earlier pane has its surviving items.
C17_AllocationAfterEarlierLeaf ==
    pane_count' # pane_count =>
        /\ InFlight = {}
        /\ EarlierPanesFilled
        /\ pane_count' = pane_count + 1
        /\ \A i \in 1..Len(item_tasks') :
               item_tasks'[i].item = Leaves(tree)[pane_count'].children[i]

\* C17: the leaves are reconstructed one after another in document order:
\* no pane is allocated and no task dispatched for a later leaf until every
\* task of the earlier leaf is complete and its surviving items are in its
\* pane, and the tasks in flight at any moment belong to one pane.
C17_SequentialLeaves ==
    []C17_InFlightInOnePane /\ [][C17_AllocationAfterEarlierLeaf]_vars

\* The second pane of a tree is awaiting its tasks, one of them complete
\* and one in flight, and the first pane has its items.
C17_Witness ==
    /\ pc = "join"
    /\ pane = 2
    /\ 1 \in DOMAIN panes
    /\ InFlight # {}
    /\ finished # <<>>

RECURSIVE Survives(_)
\* Some pane under the persisted node ends with an item.
Survives(t) ==
    IF t.type = "Pane" THEN SurvivingItems(t.children) # <<>>
    ELSE \E i \in 1..Len(t.children) : Survives(t.children[i])

RECURSIVE PersistedAxes(_)
\* Axis and flexes of the persisted groups of which two or more children
\* survive, parents before children, left to right.
PersistedAxes(t) ==
    IF t.type = "Pane" THEN <<>>
    ELSE IF t.children = <<>> THEN <<>>
    ELSE LET kids == SelectSeq(t.children, Survives)
             RECURSIVE Below(_)
             Below(n) == IF n = 0 THEN <<>>
                         ELSE Below(n - 1) \o PersistedAxes(kids[n])
         IN  (IF Len(kids) >= 2
              THEN <<[axis |-> t.axis, flexes |-> t.flexes]>> ELSE <<>>)
                 \o Below(Len(kids))

RECURSIVE LiveAxes(_)
\* Axis and flexes of the axes of a live member, parents before children,
\* left to right.
LiveAxes(m) ==
    IF m.type = "Pane" THEN <<>>
    ELSE LET RECURSIVE Below(_)
             Below(n) == IF n = 0 THEN <<>>
                         ELSE Below(n - 1) \o LiveAxes(m.members[n])
         IN  <<[axis |-> m.axis, flexes |-> m.flexes]>> \o Below(Len(m.members))

\* C18: every axis of the returned tree carries the axis and the flexes of
\* its persisted group as they were persisted (absent, or the same values
\* in the same order), however many children of the group were dropped.
C18_FlexesUnchanged ==
    (Returned /\ IsSome(result)) =>
        LiveAxes(Unwrap(result).member) = PersistedAxes(tree)

\* An axis was returned with more flexes than members.
C18_Witness ==
    /\ Returned
    /\ tree.type = "Group"
    /\ IsSome(result)
    /\ Unwrap(result).member.type = "Axis"
    /\ IsSome(Unwrap(result).member.flexes)
    /\ Unwrap(result).member.flexes = tree.flexes
    /\ Len(Unwrap(Unwrap(result).member.flexes)) > Len(Unwrap(result).member.members)

\* C19: whenever a deserialize call, at any depth, returns a member with
\* an active pane, that pane is one of the panes of the member, was
\* persisted active, is in the workspace and has an item; and when no pane
\* of the member was persisted active, no active pane is returned.
C19_ActivePaneIsReturnedPane ==
    (pc = "ret" /\ IsSome(result)) =>
        LET r == Unwrap(result)
            returned == Range(MemberPanes(r.member))
        IN  /\ IsSome(r.active_pane) =>
                   /\ Unwrap(r.active_pane) \in returned
                   /\ Leaves(tree)[Unwrap(r.active_pane)].active
                   /\ Unwrap(r.active_pane) \in DOMAIN panes
                   /\ ItemsLen(panes[Unwrap(r.active_pane)]) # 0
            /\ (\A p \in returned : ~Leaves(tree)[p].active) =>
                   r.active_pane = None
            /\ (Returned /\ ActiveSurvivors(tree) = {}) => r.active_pane = None

\* The first pane was persisted active and was removed; the tree returned
\* names a later pane as the active pane.
C19_Witness ==
    /\ Returned
    /\ IsSome(result)
    /\ Leaves(tree)[1].active
    /\ 1 \notin DOMAIN panes
    /\ IsSome(Unwrap(result).active_pane)
    /\ Unwrap(Unwrap(result).active_pane) > 1

\* No pane that survived was persisted active, one that was removed was,
\* and the tree returned names no active pane.
C19_WitnessNoActivePane ==
    /\ Returned
    /\ IsSome(result)
    /\ \E k \in 1..Len(Leaves(tree)) : Leaves(tree)[k].active
    /\ ActiveSurvivors(tree) = {}
    /\ Unwrap(result).active_pane = None

RECURSIVE EntriesOf(_)
\* One entry per persisted item of each of the panes named, in order: the
\* item's handle if it rehydrated, None if it did not.
EntriesOf(ids) ==
    IF ids = <<>> THEN <<>>
    ELSE LET children == Leaves(tree)[Head(ids)].children
         IN  [i \in 1..Len(children) |-> Rehydrated(children[i])]
                 \o EntriesOf(Tail(ids))

RECURSIVE ItemsHeld(_)
\* Number of items the panes named hold.
ItemsHeld(ids) ==
    IF ids = <<>> THEN 0
    ELSE ItemsLen(panes[Head(ids)]) + ItemsHeld(Tail(ids))

\* C20: the items list a deserialize call returns has, for each pane of
\* the returned member in document order, one entry per persisted item of
\* that pane in persisted order, Some iff the item rehydrated; panes that
\* returned None contribute nothing, and the Some entries are as many as
\* the items the returned panes hold.
C20_ItemsListPerPersistedItem ==
    (pc = "ret" /\ IsSome(result)) =>
        LET r == Unwrap(result)
            ids == MemberPanes(r.member)
        IN  /\ r.items = EntriesOf(ids)
            /\ Len(SelectSeq(r.items, IsSome)) = ItemsHeld(ids)
            /\ Returned => Range(ids) = SurvivingLeaves(tree)

\* A tree of two panes with items and a removed pane was returned; the
\* list has an entry for each item of the two panes.
C20_Witness ==
    /\ Returned
    /\ IsSome(result)
    /\ Len(MemberPanes(Unwrap(result).member)) >= 2
    /\ pane_count > Len(MemberPanes(Unwrap(result).member))
    /\ Len(Unwrap(result).items) >= 4

\* A pane was returned whose list has an absent entry between two
\* present ones.
C20_WitnessAbsentEntry ==
    /\ Returned
    /\ IsSome(result)
    /\ Len(Unwrap(result).items) = 3
    /\ IsSome(Unwrap(result).items[1])
    /\ Unwrap(result).items[2] = None
    /\ IsSome(Unwrap(result).items[3])

\* ---------------------------------------------------------------------
\* deserialize while the workspace or the pane is released
\* ---------------------------------------------------------------------
\* The workspace, or the pane deserialize_to was given, is released:
\* update on its weak handle returns Err.
Torn == ~workspace_alive \/ pane \notin DOMAIN panes

\* deserialize_to calls pane.update after join_all: an item to add, or an
\* active or preview index to restore (lines 347-366).
UpdatesPane(children, outputs) ==
    \/ \E i \in 1..Len(outputs) : IsSome(outputs[i])
    \/ IsSome(ActiveItemIndex(children))
    \/ IsSome(PreviewItemIndex(children))

RECURSIVE Nodes(_)
\* Number of nodes of a persisted tree.
Nodes(t) ==
    IF t.type = "Pane" THEN 1
    ELSE IF t.children = <<>> THEN 1
    ELSE Nodes(t.children[1]) + Nodes([t EXCEPT !.children = Tail(@)])

\* The persisted trees but the largest.
CancelTrees ==
    { t \in PersistedTrees :
        /\ Nodes(t) < MaxNodes
        /\ t.type = "Pane" => Len(t.children) < MaxItems }

InitCancel ==
    /\ tree \in CancelTrees
    /\ pc = "call"
    /\ node = tree
    /\ stack = <<>>
    /\ result = None
    /\ pane = 0
    /\ item_tasks = <<>>
    /\ finished = <<>>
    /\ new_items = <<>>
    /\ panes = <<>>
    /\ pane_count = 0
    /\ workspace_alive = TRUE
    /\ ColumnsIdle
    /\ CallIdle

\* The workspace is released while deserialize_to is suspended in join_all
\* (closing the window releases the workspace, its root view); its panes
\* go with it.
WorkspaceReleased ==
    /\ pc = "join"
    /\ InFlight # {}
    /\ workspace_alive
    /\ workspace_alive' = FALSE
    /\ panes' = <<>>
    /\ UNCHANGED <<tree, pc, node, stack, result, pane, item_tasks, finished,
                   new_items, pane_count>>
    /\ UNCHANGED <<colVars, callVars>>

\* The pane is closed while deserialize_to is suspended in join_all.
PaneReleased ==
    /\ pc = "join"
    /\ InFlight # {}
    /\ pane \in DOMAIN panes
    /\ panes' = [id \in DOMAIN panes \ {pane} |-> panes[id]]
    /\ UNCHANGED <<tree, pc, node, stack, result, pane, item_tasks, finished,
                   new_items, pane_count>>
    /\ UNCHANGED <<workspace_alive, colVars, callVars>>

\* A task in flight ends with an Err because what it was to build on is
\* released.
TaskFailsTorn(i) ==
    /\ pc = "join"
    /\ Torn
    /\ ~item_tasks[i].done
    /\ item_tasks' = [item_tasks EXCEPT ![i].done = TRUE, ![i].output = None]
    /\ finished' = Append(finished, i)
    /\ UNCHANGED <<tree, pc, node, stack, result, pane, new_items, panes,
                   pane_count>>
    /\ UNCHANGED <<workspace_alive, colVars, callVars>>

\* Lines 276-278: workspace.update(add_pane) is an Err; "?" returns None.
PaneEnterFails ==
    /\ pc = "call"
    /\ node.type = "Pane"
    /\ ~workspace_alive
    /\ result' = None
    /\ pc' = "ret"
    /\ UNCHANGED <<tree, node, stack, pane, item_tasks, finished, new_items,
                   panes, pane_count>>
    /\ UNCHANGED <<workspace_alive, colVars, callVars>>

\* The Err of deserialize_to is logged and the pane is returned with the
\* outputs.
DeserializeToErrIgnored ==
    /\ pc = "join"
    /\ JoinAllResolved(item_tasks)
    /\ pane \notin DOMAIN panes
    /\ UpdatesPane(node.children, JoinAll(item_tasks, finished))
    /\ result' = PaneResult(pane, node.active, JoinAll(item_tasks, finished))
    /\ pc' = "ret"
    /\ UNCHANGED <<tree, node, stack, pane, item_tasks, finished, new_items,
                   panes, pane_count>>
    /\ UNCHANGED <<workspace_alive, colVars, callVars>>

\* Lines 343-366 and 280-283: join_all has resolved, the first pane.update
\* is an Err, deserialize_to returns it and "?" returns None.
DeserializeToFails ==
    /\ pc = "join"
    /\ JoinAllResolved(item_tasks)
    /\ pane \notin DOMAIN panes
    /\ UpdatesPane(node.children, JoinAll(item_tasks, finished))
    /\ result' = None
    /\ pc' = "ret"
    /\ UNCHANGED <<tree, node, stack, pane, item_tasks, finished, new_items,
                   panes, pane_count>>
    /\ UNCHANGED <<workspace_alive, colVars, callVars>>

\* Lines 343-368: join_all has resolved and there is nothing to do on the
\* pane; deserialize_to returns Ok(items) without a pane.update.
DeserializeToReturnUntouched ==
    /\ pc = "join"
    /\ JoinAllResolved(item_tasks)
    /\ pane \notin DOMAIN panes
    /\ ~UpdatesPane(node.children, JoinAll(item_tasks, finished))
    /\ new_items' = [i \in 1..Len(item_tasks) |->
                        LogErr(JoinAll(item_tasks, finished)[i])]
    /\ pc' = "pane_end"
    /\ UNCHANGED <<tree, node, stack, result, pane, item_tasks, finished,
                   panes, pane_count>>
    /\ UNCHANGED <<workspace_alive, colVars, callVars>>

\* Line 285: pane.update(items_len) is an Err; "?" returns None.
PaneUpdateFails ==
    /\ pc = "pane_end"
    /\ pane \notin DOMAIN panes
    /\ result' = None
    /\ pc' = "ret"
    /\ UNCHANGED <<tree, node, stack, pane, item_tasks, finished, new_items,
                   panes, pane_count>>
    /\ UNCHANGED <<workspace_alive, colVars, callVars>>

NextCancel ==
    \/ Next
    \/ WorkspaceReleased
    \/ PaneReleased
    \/ \E i \in 1..Len(item_tasks) : TaskFailsTorn(i)
    \/ PaneEnterFails
    \/ DeserializeToFails
    \/ DeserializeToReturnUntouched
    \/ PaneUpdateFails

SpecCancel == InitCancel /\ [][NextCancel]_vars

\* No pane of the workspace is empty except the one being processed, and
\* every other one holds all the surviving items of its persisted pane.
NoEmptyOrPartialPane ==
    \A id \in DOMAIN panes :
        \/ id = pane /\ pc \in {"join", "pane_end"}
        \/ /\ ItemsLen(panes[id]) # 0
           /\ panes[id].items = SurvivingItems(Leaves(tree)[id].children)

\* At return every pane of the workspace is a pane of the returned tree.
AttachedPanesReturned ==
    Returned =>
        DOMAIN panes \subseteq
            (IF IsSome(result) THEN Range(MemberPanes(Unwrap(result).member))
             ELSE {})

\* What is returned holds nothing of a pane that was released: its panes
\* were all filled, and its items are theirs.
TornPaneNotReturned ==
    (pc = "ret" /\ IsSome(result)) =>
        /\ \A id \in Range(MemberPanes(Unwrap(result).member)) :
               SurvivingItems(Leaves(tree)[id].children) # <<>>
        /\ Unwrap(result).items = EntriesOf(MemberPanes(Unwrap(result).member))
        /\ Torn => pane \notin Range(MemberPanes(Unwrap(result).member))

\* Once the workspace or the pane is released, the outputs of the tasks
\* that were in flight change no pane and the leaf returns None.
TornLeafDiscarded ==
    (Torn /\ pc \in {"join", "pane_end"}) =>
        /\ \A id \in DOMAIN panes' : id \in DOMAIN panes /\ panes'[id] = panes[id]
        /\ pc' = "ret" => result' = None

C16_WitnessWorkspaceReleased ==
    /\ Returned
    /\ ~workspace_alive
    /\ pane_count = 2
    /\ Len(Leaves(tree)) >= 3
    /\ panes = <<>>

====
